---- MODULE Spec2Model ----
(***************************************************************************)
(* Model of prefetch.c: the Fibonacci lookahead traversal                  *)
(* fibo_lookahead_foreach, the ring navigation inc_ring / dec_ring, the    *)
(* three operations prefetch / increment / nop, and main, which calls the  *)
(* traversal twice (data0 with nop, data1 with prefetch).                  *)
(*                                                                         *)
(* Every traversal-local variable is a function of the call (0: the first  *)
(* call of main, 1: the second).  One action per statement group of the    *)
(* function; pc[c] is the position of call c.                              *)
(***************************************************************************)
EXTENDS Integers, Sequences, FiniteSets

VARIABLES
  len,      \* buffer length passed to both calls (LEN in main)
  iters,    \* iteration count passed to both calls (ITERS in main)
  n,        \* ring size passed to both calls (NAHEAD in main)
  data,     \* data[c]: the working buffer of call c (data0, data1)
  buf,      \* buf[c]: the ring buffer of call c
  i_buf,    \* i_buf[c]: ring cursor
  i,        \* i[c]: iteration counter of the traversal loop
  index,    \* index[c]: seeding accumulator
  follow,   \* follow[c]: seeding accumulator
  pc,       \* pc[c]: position of call c in fibo_lookahead_foreach
  events,   \* events[c]: history, the most recent operation invocations of call c
  count,    \* count[c]: history, how often call c has invoked each operation
  seeded,   \* seeded[c]: history, the ring as the seeding loop left it
  mem,      \* mem[c]: the allocations of call c (its ring, its working buffer)
  red,      \* red[c]: history of the reduction loops of call c
  probe     \* inputs and trace of the ring-navigation functions on their own

tvars == <<len, iters, n, data, buf, i_buf, i, index, follow, pc, events, count, seeded,
          mem, red>>
vars == <<len, iters, n, data, buf, i_buf, i, index, follow, pc, events, count, seeded,
         mem, red, probe>>

\* Bounds of the model.
MaxLen == 6
MaxN == 4
MaxIters == 9
MaxRing == 5

\* The calls of prefetch.c's main.
Calls == {0, 1}

\* The calls of the main of the constant-based version (part_000).
Calls0 == {2, 3}

AllCalls == Calls \cup Calls0

(* ---------------------------------------------------------------------- *)
(* Ring navigation                                                         *)
(* ---------------------------------------------------------------------- *)

\* Mutants of inc_ring: the wrap test off by one, in either direction.
IncRingWrapsEarly(p, m) ==
  LET next == p + 1
  IN IF next >= m - 1 THEN 0 ELSE next

IncRingWrapsLate(p, m) ==
  LET next == p + 1
  IN IF next > m THEN 0 ELSE next

inc_ring(p, m) ==
  LET next == p + 1
  IN IF next >= m THEN 0 ELSE next

\* Mutant of dec_ring: > for >= in the wrap test.
DecRingWrapsLate(p, m) ==
  LET next == p + m - 1
  IN IF next > m THEN next - m ELSE next

dec_ring(p, m) ==
  LET next == p + m - 1
  IN IF next >= m THEN next - m ELSE next

(* ---------------------------------------------------------------------- *)
(* The three operations (op_t).  d is the buffer, a function on 0..l-1.    *)
(* ---------------------------------------------------------------------- *)

\* Mutant of prefetch: the hint touches the element as increment does.
PrefetchWrites(d, l, x) == [d EXCEPT ![x] = @ + 1]

prefetch(d, l, x) == d

increment(d, l, x) == [d EXCEPT ![x] = @ + 1]

nop(d, l, x) == d

\* The call of a function pointer op_t.
ApplyOp(op, d, l, x) ==
  CASE op = "nop" -> nop(d, l, x)
    [] op = "prefetch" -> prefetch(d, l, x)
    [] op = "increment" -> increment(d, l, x)

\* The arguments main passes: nop for the first call, prefetch for the second,
\* increment as op_lowest in both.
op_highest(c) == IF c = 0 THEN "nop" ELSE "prefetch"

op_lowest(c) == "increment"

\* calloc: a zeroed array of m elements, indexed from 0.
calloc(m) == [k \in 0 .. m - 1 |-> 0]

\* What calloc returns when the allocation fails: no element can be accessed.
NULL == <<>>

\* An invocation op(data, len, x), made in iteration iter with the cursor at slot.
Event(op, x, slot, iter) == [op |-> op, index |-> x, slot |-> slot, iter |-> iter]

\* The history keeps the last 2n + 2 invocations: those of the last n
\* iterations and of the one under way.
Window == 2 * n + 2

Record(ev, e) ==
  LET s == Append(ev, e)
  IN IF Len(s) > Window THEN Tail(s) ELSE s

IdleProbe == [n |-> 0, pos |-> <<>>, ops |-> <<>>]

(* ---------------------------------------------------------------------- *)
(* fibo_lookahead_foreach, call c                                          *)
(* ---------------------------------------------------------------------- *)

\* Mutant of Enter: the two seeding accumulators start swapped.
EnterSeedsSwapped(c) ==
  /\ pc[c] = "start"
  /\ buf' = [buf EXCEPT ![c] = IF "ring" \in mem[c].fail THEN NULL ELSE calloc(n)]
  /\ mem' = [mem EXCEPT ![c].ring = IF "ring" \in mem[c].fail THEN "null" ELSE "live"]
  /\ i_buf' = [i_buf EXCEPT ![c] = 0]
  /\ index' = [index EXCEPT ![c] = 0]
  /\ follow' = [follow EXCEPT ![c] = 1]
  /\ pc' = [pc EXCEPT ![c] = "seed"]
  /\ UNCHANGED <<len, iters, n, data, i, events, count, seeded, probe, red>>

\* Entry: the ring is allocated (calloc returns NULL when the allocation
\* fails; the result is not tested), the seeding loop is initialised.
Enter(c) ==
  /\ pc[c] = "start"
  /\ buf' = [buf EXCEPT ![c] = IF "ring" \in mem[c].fail THEN NULL ELSE calloc(n)]
  /\ mem' = [mem EXCEPT ![c].ring = IF "ring" \in mem[c].fail THEN "null" ELSE "live"]
  /\ i_buf' = [i_buf EXCEPT ![c] = 0]
  /\ index' = [index EXCEPT ![c] = 1]
  /\ follow' = [follow EXCEPT ![c] = 0]
  /\ pc' = [pc EXCEPT ![c] = "seed"]
  /\ UNCHANGED <<len, iters, n, data, i, events, count, seeded, probe, red>>

\* Seeding loop body up to the reduction loop.  With buf NULL the store
\* buf[i_buf] = index goes through the null pointer and faults.
SeedStore(c) ==
  /\ pc[c] = "seed"
  /\ i_buf[c] < n
  /\ IF mem[c].ring = "null"
       THEN /\ mem' = [mem EXCEPT ![c].null_access = @ + 1]
            /\ pc' = [pc EXCEPT ![c] = "crashed"]
            /\ UNCHANGED <<buf, index, follow, red>>
       ELSE /\ buf' = [buf EXCEPT ![c][i_buf[c]] = index[c]]
            /\ index' = [index EXCEPT ![c] = index[c] + follow[c]]
            /\ follow' = [follow EXCEPT ![c] = index[c]]
            /\ red' = [red EXCEPT ![c].raw = index[c] + follow[c], ![c].subs = 0]
            /\ pc' = [pc EXCEPT ![c] = "seed_reduce"]
            /\ mem' = mem
  /\ UNCHANGED <<len, iters, n, data, i_buf, i, events, count, seeded, probe>>

\* One pass of while (index >= len) index -= len.
SeedReduce(c) ==
  /\ pc[c] = "seed_reduce"
  /\ index[c] >= len
  /\ index' = [index EXCEPT ![c] = index[c] - len]
  /\ red' = [red EXCEPT ![c].subs = @ + 1, ![c].total = @ + 1]
  /\ UNCHANGED <<len, iters, n, data, buf, i_buf, i, follow, pc, events, count, seeded, probe, mem>>

\* The reduction loop exits; i_buf++ of the for statement.
SeedNext(c) ==
  /\ pc[c] = "seed_reduce"
  /\ index[c] < len
  /\ i_buf' = [i_buf EXCEPT ![c] = i_buf[c] + 1]
  /\ pc' = [pc EXCEPT ![c] = "seed"]
  /\ UNCHANGED <<len, iters, n, data, buf, i, index, follow, events, count, seeded, probe, mem, red>>

\* The seeding loop exits; the traversal loop is initialised.
SeedDone(c) ==
  /\ pc[c] = "seed"
  /\ i_buf[c] >= n
  /\ i' = [i EXCEPT ![c] = 0]
  /\ i_buf' = [i_buf EXCEPT ![c] = 0]
  /\ seeded' = [seeded EXCEPT ![c] = buf[c]]
  /\ pc' = [pc EXCEPT ![c] = "loop"]
  /\ UNCHANGED <<len, iters, n, data, buf, index, follow, events, count, probe, mem, red>>

\* op_lowest(data, len, buf[i_buf]).  increment writes data[index]; with
\* index >= len the write is outside the allocation, which is undefined: the
\* write either lands outside the buffer (the buffer is unchanged) or faults.
\* With data NULL the write goes through the null pointer and faults.
OpLowest(c) ==
  /\ pc[c] = "loop"
  /\ i[c] < iters
  /\ LET x == buf[c][i_buf[c]]
     IN /\ events' = [events EXCEPT ![c] =
                        Record(@, Event("op_lowest", x, i_buf[c], i[c]))]
        /\ count' = [count EXCEPT ![c].op_lowest = @ + 1]
        /\ IF mem[c].data = "null"
             THEN /\ data' = data
                  /\ mem' = [mem EXCEPT ![c].null_access = @ + 1]
                  /\ pc' = [pc EXCEPT ![c] = "crashed"]
             ELSE /\ mem' = mem
                  /\ IF x \in DOMAIN data[c]
                       THEN /\ data' = [data EXCEPT ![c] =
                                          ApplyOp(op_lowest(c), data[c], len, x)]
                            /\ pc' = [pc EXCEPT ![c] = "compute"]
                       ELSE /\ data' = data
                            /\ \E outcome \in {"stray", "fault"} :
                                 pc' = [pc EXCEPT ![c] =
                                          IF outcome = "stray" THEN "compute" ELSE "crashed"]
  /\ UNCHANGED <<len, iters, n, buf, i_buf, i, index, follow, seeded, probe, red>>

\* Mutant of Compute: the newest slot is added to itself.
ComputePrevTwice(c) ==
  /\ pc[c] = "compute"
  /\ LET prev == dec_ring(i_buf[c], n)
         sum == buf[c][prev] + buf[c][prev]
     IN /\ buf' = [buf EXCEPT ![c][i_buf[c]] = sum]
        /\ red' = [red EXCEPT ![c].raw = sum, ![c].subs = 0]
  /\ pc' = [pc EXCEPT ![c] = "reduce"]
  /\ UNCHANGED <<len, iters, n, data, i_buf, i, index, follow, events, count, seeded, probe, mem>>

\* Mutant of Compute: the cursor advances before op_highest is called.
ComputeAdvancesCursor(c) ==
  /\ pc[c] = "compute"
  /\ LET prev == dec_ring(i_buf[c], n)
         sum == buf[c][prev] + buf[c][dec_ring(prev, n)]
     IN /\ buf' = [buf EXCEPT ![c][i_buf[c]] = sum]
        /\ red' = [red EXCEPT ![c].raw = sum, ![c].subs = 0]
  /\ i_buf' = [i_buf EXCEPT ![c] = inc_ring(i_buf[c], n)]
  /\ pc' = [pc EXCEPT ![c] = "reduce"]
  /\ UNCHANGED <<len, iters, n, data, i, index, follow, events, count, seeded, probe, mem>>

\* prev = dec_ring(i_buf, n); buf[i_buf] = buf[prev] + buf[dec_ring(prev, n)].
Compute(c) ==
  /\ pc[c] = "compute"
  /\ LET prev == dec_ring(i_buf[c], n)
         sum == buf[c][prev] + buf[c][dec_ring(prev, n)]
     IN /\ buf' = [buf EXCEPT ![c][i_buf[c]] = sum]
        /\ red' = [red EXCEPT ![c].raw = sum, ![c].subs = 0]
  /\ pc' = [pc EXCEPT ![c] = "reduce"]
  /\ UNCHANGED <<len, iters, n, data, i_buf, i, index, follow, events, count, seeded, probe, mem>>

\* One pass of while (buf[i_buf] >= len) buf[i_buf] -= len.
Reduce(c) ==
  /\ pc[c] = "reduce"
  /\ buf[c][i_buf[c]] >= len
  /\ buf' = [buf EXCEPT ![c][i_buf[c]] = @ - len]
  /\ red' = [red EXCEPT ![c].subs = @ + 1, ![c].total = @ + 1]
  /\ UNCHANGED <<len, iters, n, data, i_buf, i, index, follow, pc, events, count, seeded, probe, mem>>

\* The reduction loop exits; op_highest(data, len, buf[i_buf]).
OpHighest(c) ==
  /\ pc[c] = "reduce"
  /\ buf[c][i_buf[c]] < len
  /\ LET x == buf[c][i_buf[c]]
     IN /\ events' = [events EXCEPT ![c] =
                        Record(@, Event("op_highest", x, i_buf[c], i[c]))]
        /\ count' = [count EXCEPT ![c].op_highest = @ + 1]
        /\ data' = [data EXCEPT ![c] = ApplyOp(op_highest(c), data[c], len, x)]
  /\ pc' = [pc EXCEPT ![c] = "advance"]
  /\ UNCHANGED <<len, iters, n, buf, i_buf, i, index, follow, seeded, probe, mem, red>>

\* Mutant of Advance: the cursor moves two slots.
AdvanceTwice(c) ==
  /\ pc[c] = "advance"
  /\ i_buf' = [i_buf EXCEPT ![c] = inc_ring(inc_ring(i_buf[c], n), n)]
  /\ i' = [i EXCEPT ![c] = i[c] + 1]
  /\ pc' = [pc EXCEPT ![c] = "loop"]
  /\ UNCHANGED <<len, iters, n, data, buf, index, follow, events, count, seeded, probe, mem, red>>

\* i_buf = inc_ring(i_buf, n); i++ of the for statement.
Advance(c) ==
  /\ pc[c] = "advance"
  /\ i_buf' = [i_buf EXCEPT ![c] = inc_ring(i_buf[c], n)]
  /\ i' = [i EXCEPT ![c] = i[c] + 1]
  /\ pc' = [pc EXCEPT ![c] = "loop"]
  /\ UNCHANGED <<len, iters, n, data, buf, index, follow, events, count, seeded, probe, mem, red>>

\* The traversal loop exits and the function returns.
Return(c) ==
  /\ pc[c] = "loop"
  /\ i[c] >= iters
  /\ pc' = [pc EXCEPT ![c] = "returned"]
  /\ UNCHANGED <<len, iters, n, data, buf, i_buf, i, index, follow, events, count, seeded, probe, mem, red>>

\* main is sequential: the second call is made when the first has returned.
MainOrder(c) == c = 0 \/ pc[0] = "returned"

Call(c) == MainOrder(c) /\ Enter(c)

Step(c) ==
  \/ Call(c)
  \/ SeedStore(c)
  \/ SeedReduce(c)
  \/ SeedNext(c)
  \/ SeedDone(c)
  \/ OpLowest(c)
  \/ Compute(c)
  \/ Reduce(c)
  \/ OpHighest(c)
  \/ Advance(c)
  \/ Return(c)

(* ---------------------------------------------------------------------- *)
(* main: data0 and data1 are zeroed buffers of len counters; the second    *)
(* call starts when the first has returned.                                *)
(* ---------------------------------------------------------------------- *)

\* fail[c] names the allocations for call c that the allocator refuses
\* ("data": the working buffer main allocates, "ring": the ring of the call).
InitAlloc(l, it, m, fail) ==
  /\ len = l
  /\ iters = it
  /\ n = m
  /\ data = [c \in AllCalls |-> IF "data" \in fail[c] THEN NULL ELSE calloc(l)]
  /\ buf = [c \in AllCalls |-> <<>>]
  /\ i_buf = [c \in AllCalls |-> 0]
  /\ i = [c \in AllCalls |-> 0]
  /\ index = [c \in AllCalls |-> 0]
  /\ follow = [c \in AllCalls |-> 0]
  /\ pc = [c \in AllCalls |-> "start"]
  /\ events = [c \in AllCalls |-> <<>>]
  /\ count = [c \in AllCalls |-> [op_lowest |-> 0, op_highest |-> 0]]
  /\ seeded = [c \in AllCalls |-> <<>>]
  /\ mem = [c \in AllCalls |->
              [ring |-> "none",
               data |-> IF "data" \in fail[c] THEN "null" ELSE "live",
               fail |-> fail[c],
               null_access |-> 0]]
  /\ red = [c \in AllCalls |-> [raw |-> 0, subs |-> 0, total |-> 0]]

\* Every allocation succeeds.
InitCalls(l, it, m) == InitAlloc(l, it, m, [c \in AllCalls |-> {}])

Init ==
  /\ \E l \in 1 .. MaxLen, it \in 0 .. MaxIters, m \in 1 .. MaxN : InitCalls(l, it, m)
  /\ probe = IdleProbe

Next == \E c \in Calls : Step(c)

Spec == Init /\ [][Next]_vars

(* ---------------------------------------------------------------------- *)
(* The two calls of main stepped together: both calls are entered at once  *)
(* and the call that is behind (or level) takes the next step.  Used to    *)
(* compare the nop call with the prefetch call position by position.       *)
(* ---------------------------------------------------------------------- *)

\* How far call c has come in fibo_lookahead_foreach.
Rank(c) ==
  CASE pc[c] = "start" -> 0
    [] pc[c] = "seed" -> 1 + 2 * i_buf[c]
    [] pc[c] = "seed_reduce" -> 2 + 2 * i_buf[c]
    [] pc[c] = "loop" -> 2 * n + 2 + 4 * i[c]
    [] pc[c] = "compute" -> 2 * n + 3 + 4 * i[c]
    [] pc[c] = "reduce" -> 2 * n + 4 + 4 * i[c]
    [] pc[c] = "advance" -> 2 * n + 5 + 4 * i[c]
    [] pc[c] = "returned" -> 2 * n + 3 + 4 * iters
    [] pc[c] = "crashed" -> 2 * n + 4 + 4 * iters

Lagging(c) == Rank(c) <= Rank(1 - c)

DetNext ==
  \E c \in Calls :
    \/ Lagging(c) /\ Enter(c)
    \/ Lagging(c) /\ SeedStore(c)
    \/ Lagging(c) /\ SeedReduce(c)
    \/ Lagging(c) /\ SeedNext(c)
    \/ Lagging(c) /\ SeedDone(c)
    \/ Lagging(c) /\ OpLowest(c)
    \/ Lagging(c) /\ Compute(c)
    \/ Lagging(c) /\ Reduce(c)
    \/ Lagging(c) /\ OpHighest(c)
    \/ Lagging(c) /\ Advance(c)
    \/ Lagging(c) /\ Return(c)

DetSpec == Init /\ [][DetNext]_vars

(* ---------------------------------------------------------------------- *)
(* The run of the coverage test (buffer_length 50, lookahead_depth 4,      *)
(* 5000 iterations), beside the runs of Spec.                              *)
(* ---------------------------------------------------------------------- *)

CoverageInit ==
  \/ Init
  \/ /\ InitCalls(50, 5000, 4)
     /\ probe = IdleProbe

CoverageSpec == CoverageInit /\ [][Next]_vars

(* ---------------------------------------------------------------------- *)
(* The end-to-end scenario (buffer_length 10, lookahead_depth 3), beside   *)
(* the runs of Spec.                                                       *)
(* ---------------------------------------------------------------------- *)

ScenarioInit ==
  \/ Init
  \/ /\ \E it \in 0 .. MaxIters : InitCalls(10, it, 3)
     /\ probe = IdleProbe

ScenarioSpec == ScenarioInit /\ [][Next]_vars

(* ---------------------------------------------------------------------- *)
(* inc_ring and dec_ring on their own: a ring size and a start position    *)
(* are drawn, and the two functions are applied in any order, at most      *)
(* probe.n + 1 times.  probe.pos is the sequence of positions visited.     *)
(* ---------------------------------------------------------------------- *)

ProbeLast == probe.pos[Len(probe.pos)]

ProbeInc ==
  /\ probe.n >= 1
  /\ Len(probe.ops) <= probe.n
  /\ probe' = [probe EXCEPT !.pos = Append(@, inc_ring(ProbeLast, probe.n)),
                            !.ops = Append(@, "inc")]
  /\ UNCHANGED tvars

ProbeDec ==
  /\ probe.n >= 1
  /\ Len(probe.ops) <= probe.n
  /\ probe' = [probe EXCEPT !.pos = Append(@, dec_ring(ProbeLast, probe.n)),
                            !.ops = Append(@, "dec")]
  /\ UNCHANGED tvars

RingInit ==
  /\ InitCalls(1, 0, 1)
  /\ \E m \in 1 .. MaxRing : \E s \in 0 .. m - 1 :
       probe = [n |-> m, pos |-> <<s>>, ops |-> <<>>]

RingNext == ProbeInc \/ ProbeDec

RingSpec == RingInit /\ [][RingNext]_vars

(* ---------------------------------------------------------------------- *)
(* main with an allocator that may refuse any of the four allocations      *)
(* (data0, data1 and the ring of each call).                               *)
(* ---------------------------------------------------------------------- *)

NoFailure == [c \in AllCalls |-> {}]

AllocInit ==
  /\ \E l \in 1 .. MaxLen, it \in 0 .. MaxIters, m \in 1 .. MaxN :
       \E f0 \in SUBSET {"data", "ring"}, f1 \in SUBSET {"data", "ring"} :
         InitAlloc(l, it, m, [NoFailure EXCEPT ![0] = f0, ![1] = f1])
  /\ probe = IdleProbe

AllocSpec == AllocInit /\ [][Next]_vars

(* ---------------------------------------------------------------------- *)
(* The constant-based version (part_000).  Its fibo_lookahead_foreach,     *)
(* inc_ring and dec_ring take no len, iters or n: they read the constants  *)
(* LEN, ITERS and NAHEAD.  main makes calls 2 (nop) and 3 (prefetch).      *)
(* ---------------------------------------------------------------------- *)

\* The three constants; Init draws small values for them.
LEN == len

ITERS == iters

NAHEAD == n

inc_ring0(p) ==
  LET next == p + 1
  IN IF next >= NAHEAD THEN 0 ELSE next

dec_ring0(p) ==
  LET next == p + NAHEAD - 1
  IN IF next >= NAHEAD THEN next - NAHEAD ELSE next

prefetch0(d, x) == d

increment0(d, x) == [d EXCEPT ![x] = @ + 1]

nop0(d, x) == d

ApplyOp0(op, d, x) ==
  CASE op = "nop" -> nop0(d, x)
    [] op = "prefetch" -> prefetch0(d, x)
    [] op = "increment" -> increment0(d, x)

op_highest0(c) == IF c = 2 THEN "nop" ELSE "prefetch"

op_lowest0(c) == "increment"

\* Mutant of Enter0: the two seeding accumulators start swapped.
Enter0SeedsSwapped(c) ==
  /\ pc[c] = "start"
  /\ buf' = [buf EXCEPT ![c] = IF "ring" \in mem[c].fail THEN NULL ELSE calloc(NAHEAD)]
  /\ mem' = [mem EXCEPT ![c].ring = IF "ring" \in mem[c].fail THEN "null" ELSE "live"]
  /\ i_buf' = [i_buf EXCEPT ![c] = 0]
  /\ index' = [index EXCEPT ![c] = 0]
  /\ follow' = [follow EXCEPT ![c] = 1]
  /\ pc' = [pc EXCEPT ![c] = "seed"]
  /\ UNCHANGED <<len, iters, n, data, i, events, count, seeded, probe, red>>

Enter0(c) ==
  /\ pc[c] = "start"
  /\ buf' = [buf EXCEPT ![c] = IF "ring" \in mem[c].fail THEN NULL ELSE calloc(NAHEAD)]
  /\ mem' = [mem EXCEPT ![c].ring = IF "ring" \in mem[c].fail THEN "null" ELSE "live"]
  /\ i_buf' = [i_buf EXCEPT ![c] = 0]
  /\ index' = [index EXCEPT ![c] = 1]
  /\ follow' = [follow EXCEPT ![c] = 0]
  /\ pc' = [pc EXCEPT ![c] = "seed"]
  /\ UNCHANGED <<len, iters, n, data, i, events, count, seeded, probe, red>>

SeedStore0(c) ==
  /\ pc[c] = "seed"
  /\ i_buf[c] < NAHEAD
  /\ IF mem[c].ring = "null"
       THEN /\ mem' = [mem EXCEPT ![c].null_access = @ + 1]
            /\ pc' = [pc EXCEPT ![c] = "crashed"]
            /\ UNCHANGED <<buf, index, follow, red>>
       ELSE /\ buf' = [buf EXCEPT ![c][i_buf[c]] = index[c]]
            /\ index' = [index EXCEPT ![c] = index[c] + follow[c]]
            /\ follow' = [follow EXCEPT ![c] = index[c]]
            /\ red' = [red EXCEPT ![c].raw = index[c] + follow[c], ![c].subs = 0]
            /\ pc' = [pc EXCEPT ![c] = "seed_reduce"]
            /\ mem' = mem
  /\ UNCHANGED <<len, iters, n, data, i_buf, i, events, count, seeded, probe>>

SeedReduce0(c) ==
  /\ pc[c] = "seed_reduce"
  /\ index[c] >= LEN
  /\ index' = [index EXCEPT ![c] = index[c] - LEN]
  /\ red' = [red EXCEPT ![c].subs = @ + 1, ![c].total = @ + 1]
  /\ UNCHANGED <<len, iters, n, data, buf, i_buf, i, follow, pc, events, count, seeded, probe, mem>>

SeedNext0(c) ==
  /\ pc[c] = "seed_reduce"
  /\ index[c] < LEN
  /\ i_buf' = [i_buf EXCEPT ![c] = i_buf[c] + 1]
  /\ pc' = [pc EXCEPT ![c] = "seed"]
  /\ UNCHANGED <<len, iters, n, data, buf, i, index, follow, events, count, seeded, probe, mem, red>>

SeedDone0(c) ==
  /\ pc[c] = "seed"
  /\ i_buf[c] >= NAHEAD
  /\ i' = [i EXCEPT ![c] = 0]
  /\ i_buf' = [i_buf EXCEPT ![c] = 0]
  /\ seeded' = [seeded EXCEPT ![c] = buf[c]]
  /\ pc' = [pc EXCEPT ![c] = "loop"]
  /\ UNCHANGED <<len, iters, n, data, buf, index, follow, events, count, probe, mem, red>>

\* op_lowest(data, buf[i_buf]); the write of increment outside the buffer
\* is undefined, as in prefetch.c.
OpLowest0(c) ==
  /\ pc[c] = "loop"
  /\ i[c] < ITERS
  /\ LET x == buf[c][i_buf[c]]
     IN /\ events' = [events EXCEPT ![c] =
                        Record(@, Event("op_lowest", x, i_buf[c], i[c]))]
        /\ count' = [count EXCEPT ![c].op_lowest = @ + 1]
        /\ IF mem[c].data = "null"
             THEN /\ data' = data
                  /\ mem' = [mem EXCEPT ![c].null_access = @ + 1]
                  /\ pc' = [pc EXCEPT ![c] = "crashed"]
             ELSE /\ mem' = mem
                  /\ IF x \in DOMAIN data[c]
                       THEN /\ data' = [data EXCEPT ![c] =
                                          ApplyOp0(op_lowest0(c), data[c], x)]
                            /\ pc' = [pc EXCEPT ![c] = "compute"]
                       ELSE /\ data' = data
                            /\ \E outcome \in {"stray", "fault"} :
                                 pc' = [pc EXCEPT ![c] =
                                          IF outcome = "stray" THEN "compute" ELSE "crashed"]
  /\ UNCHANGED <<len, iters, n, buf, i_buf, i, index, follow, seeded, probe, red>>

\* prev = dec_ring(i_buf); buf[i_buf] = buf[prev] + buf[dec_ring(prev)].
Compute0(c) ==
  /\ pc[c] = "compute"
  /\ LET prev == dec_ring0(i_buf[c])
         sum == buf[c][prev] + buf[c][dec_ring0(prev)]
     IN /\ buf' = [buf EXCEPT ![c][i_buf[c]] = sum]
        /\ red' = [red EXCEPT ![c].raw = sum, ![c].subs = 0]
  /\ pc' = [pc EXCEPT ![c] = "reduce"]
  /\ UNCHANGED <<len, iters, n, data, i_buf, i, index, follow, events, count, seeded, probe, mem>>

Reduce0(c) ==
  /\ pc[c] = "reduce"
  /\ buf[c][i_buf[c]] >= LEN
  /\ buf' = [buf EXCEPT ![c][i_buf[c]] = @ - LEN]
  /\ red' = [red EXCEPT ![c].subs = @ + 1, ![c].total = @ + 1]
  /\ UNCHANGED <<len, iters, n, data, i_buf, i, index, follow, pc, events, count, seeded, probe, mem>>

OpHighest0(c) ==
  /\ pc[c] = "reduce"
  /\ buf[c][i_buf[c]] < LEN
  /\ LET x == buf[c][i_buf[c]]
     IN /\ events' = [events EXCEPT ![c] =
                        Record(@, Event("op_highest", x, i_buf[c], i[c]))]
        /\ count' = [count EXCEPT ![c].op_highest = @ + 1]
        /\ data' = [data EXCEPT ![c] = ApplyOp0(op_highest0(c), data[c], x)]
  /\ pc' = [pc EXCEPT ![c] = "advance"]
  /\ UNCHANGED <<len, iters, n, buf, i_buf, i, index, follow, seeded, probe, mem, red>>

Advance0(c) ==
  /\ pc[c] = "advance"
  /\ i_buf' = [i_buf EXCEPT ![c] = inc_ring0(i_buf[c])]
  /\ i' = [i EXCEPT ![c] = i[c] + 1]
  /\ pc' = [pc EXCEPT ![c] = "loop"]
  /\ UNCHANGED <<len, iters, n, data, buf, index, follow, events, count, seeded, probe, mem, red>>

\* The traversal loop exits; free(buf); the function returns.
Return0(c) ==
  /\ pc[c] = "loop"
  /\ i[c] >= ITERS
  /\ mem' = [mem EXCEPT ![c].ring = "freed"]
  /\ pc' = [pc EXCEPT ![c] = "returned"]
  /\ UNCHANGED <<len, iters, n, data, buf, i_buf, i, index, follow, events, count, seeded, probe, red>>

\* main of part_000 is sequential too.
MainOrder0(c) == c = 2 \/ pc[2] = "returned"

Call0(c) == MainOrder0(c) /\ Enter0(c)

\* The end of main: free(data0); free(data1); return EXIT_SUCCESS.  Both
\* calls have returned; free of a null pointer does nothing.
FreeData0 ==
  /\ \A c \in Calls0 : pc[c] = "returned"
  /\ \E c \in Calls0 : mem[c].data = "live"
  /\ mem' = [c \in AllCalls |->
               IF c \in Calls0 /\ mem[c].data = "live"
                 THEN [mem[c] EXCEPT !.data = "freed"]
                 ELSE mem[c]]
  /\ UNCHANGED <<len, iters, n, data, buf, i_buf, i, index, follow, pc, events, count, seeded, probe, red>>

(* ---------------------------------------------------------------------- *)
(* The two versions side by side on the same three values: call c of       *)
(* prefetch.c and call Twin(c) of part_000 are stepped together, whichever *)
(* is behind (or level) taking the next step.                              *)
(* ---------------------------------------------------------------------- *)

Twin(c) == c + 2

Behind(c, d) == Rank(c) <= Rank(d)

EquivNext ==
  \/ \E c \in Calls :
       \/ Behind(c, Twin(c)) /\ Call(c)
       \/ Behind(c, Twin(c)) /\ SeedStore(c)
       \/ Behind(c, Twin(c)) /\ SeedReduce(c)
       \/ Behind(c, Twin(c)) /\ SeedNext(c)
       \/ Behind(c, Twin(c)) /\ SeedDone(c)
       \/ Behind(c, Twin(c)) /\ OpLowest(c)
       \/ Behind(c, Twin(c)) /\ Compute(c)
       \/ Behind(c, Twin(c)) /\ Reduce(c)
       \/ Behind(c, Twin(c)) /\ OpHighest(c)
       \/ Behind(c, Twin(c)) /\ Advance(c)
       \/ Behind(c, Twin(c)) /\ Return(c)
       \/ Behind(Twin(c), c) /\ Call0(Twin(c))
       \/ Behind(Twin(c), c) /\ SeedStore0(Twin(c))
       \/ Behind(Twin(c), c) /\ SeedReduce0(Twin(c))
       \/ Behind(Twin(c), c) /\ SeedNext0(Twin(c))
       \/ Behind(Twin(c), c) /\ SeedDone0(Twin(c))
       \/ Behind(Twin(c), c) /\ OpLowest0(Twin(c))
       \/ Behind(Twin(c), c) /\ Compute0(Twin(c))
       \/ Behind(Twin(c), c) /\ Reduce0(Twin(c))
       \/ Behind(Twin(c), c) /\ OpHighest0(Twin(c))
       \/ Behind(Twin(c), c) /\ Advance0(Twin(c))
       \/ Behind(Twin(c), c) /\ Return0(Twin(c))
  \/ FreeData0

EquivSpec == Init /\ [][EquivNext]_vars

(* ---------------------------------------------------------------------- *)
(* Properties                                                              *)
(* ---------------------------------------------------------------------- *)

\* The recorded invocations of call c, all of them and by operation.
EventsOf(c) == {events[c][k] : k \in 1 .. Len(events[c])}

LowsOf(c) == {e \in EventsOf(c) : e.op = "op_lowest"}

HighsOf(c) == {e \in EventsOf(c) : e.op = "op_highest"}

\* The Fibonacci numbers: Fib(0) = 0, Fib(1) = 1, Fib(k) = Fib(k-1) + Fib(k-2).
RECURSIVE FibFrom(_, _, _)
FibFrom(k, a, b) == IF k = 0 THEN a ELSE FibFrom(k - 1, b, a + b)

Fib(k) == FibFrom(k, 0, 1)

\* C1: every index the traversal passes to op_lowest or to op_highest is in
\* [0, len): no access to the working buffer is out of bounds.
C1_IndicesInBounds ==
  \A c \in Calls : \A e \in EventsOf(c) : e.index \in 0 .. len - 1

\* C2: once seeded, and after every traversal iteration, the ring holds n
\* values, each in [0, len).
C2_RingRange ==
  \A c \in Calls :
    pc[c] \in {"loop", "returned"} =>
      /\ DOMAIN buf[c] = 0 .. n - 1
      /\ \A s \in 0 .. n - 1 : buf[c][s] \in 0 .. len - 1

\* C3: the index passed to op_highest in iteration k is the index passed to
\* op_lowest in iteration k + n; the indices op_lowest consumes in iterations
\* 0 .. n-1 are the seeded values, read from slots that no earlier iteration
\* has passed to op_highest.
C3_LookaheadDistance ==
  \A c \in Calls :
    /\ \A h \in HighsOf(c) : \A l \in LowsOf(c) :
         l.iter = h.iter + n => l.index = h.index /\ l.slot = h.slot
    /\ \A l \in LowsOf(c) :
         l.iter < n =>
           /\ l.index = seeded[c][l.iter]
           /\ \A h \in HighsOf(c) : h.iter < l.iter => h.slot # l.slot

C3_Witness ==
  \E c \in Calls : \E l \in LowsOf(c) : \E h \in HighsOf(c) :
    /\ n >= 3
    /\ len >= 5
    /\ l.iter = h.iter + n
    /\ l.iter >= 2 * n
    /\ l.index >= 3

\* C4: the index passed to op_lowest in iteration k is Fib(k+1) mod len, and
\* the value appended in iteration k is the next term, Fib(k+n+1) mod len.
C4_FibonacciSequence ==
  \A c \in Calls :
    /\ \A l \in LowsOf(c) : l.index = Fib(l.iter + 1) % len
    /\ \A h \in HighsOf(c) : h.index = Fib(h.iter + n + 1) % len

\* C5: the call with nop and the call with prefetch, started on equal buffers
\* with the same len, iters and n, hold equal buffers, rings and cursors
\* whenever both stand before the same iteration, and equal buffers when both
\* have returned.
C5_Determinism ==
  /\ (pc[0] = "loop" /\ pc[1] = "loop" /\ i[0] = i[1]) =>
       /\ data[0] = data[1]
       /\ buf[0] = buf[1]
       /\ i_buf[0] = i_buf[1]
  /\ (pc[0] = "returned" /\ pc[1] = "returned") => data[0] = data[1]

C5_Witness ==
  /\ pc[0] = "returned"
  /\ pc[1] = "returned"
  /\ iters >= 4
  /\ len >= 3
  /\ count[1].op_highest = iters
  /\ \E x \in 0 .. len - 1 : data[1][x] >= 2

\* C6: inc_ring and dec_ring are mutual inverses on [0, n), and their results
\* are in [0, n): a position, then inc_ring, then dec_ring (or dec_ring, then
\* inc_ring) is the position again.
C6_MutualInverses ==
  /\ \A k \in 1 .. Len(probe.pos) : probe.pos[k] \in 0 .. probe.n - 1
  /\ \A k \in 1 .. Len(probe.ops) - 1 :
       probe.ops[k] # probe.ops[k + 1] => probe.pos[k + 2] = probe.pos[k]

C6_Witness ==
  /\ probe.n >= 3
  /\ probe.pos[1] = probe.n - 1
  /\ probe.ops = <<"inc", "dec", "dec", "inc">>

\* C7: from any start, n applications of inc_ring return to the start and
\* fewer do not; the positions on the way are distinct and the step from n-1
\* goes to 0.
C7_RingClosure ==
  \A k \in 1 .. Len(probe.ops) :
    (\A j \in 1 .. k : probe.ops[j] = "inc") =>
      /\ k = probe.n => probe.pos[k + 1] = probe.pos[1]
      /\ k < probe.n => probe.pos[k + 1] # probe.pos[1]
      /\ k <= probe.n => \A j \in 1 .. k - 1 : probe.pos[j] # probe.pos[k]
      /\ probe.pos[k + 1] = (IF probe.pos[k] = probe.n - 1 THEN 0 ELSE probe.pos[k] + 1)

C7_Witness ==
  /\ probe.n >= 3
  /\ probe.pos[1] = 1
  /\ Len(probe.ops) = probe.n
  /\ \A j \in 1 .. probe.n : probe.ops[j] = "inc"
  /\ probe.pos[probe.n + 1] = 1

\* C8: with len 50, n 4 and a zeroed buffer, a call that has returned after
\* 5000 iterations has made 5000 op_lowest invocations and every counter is
\* above 0 (only op_lowest raises a counter, so every index was current).
C8_Coverage ==
  \A c \in Calls :
    (len = 50 /\ n = 4 /\ iters = 5000 /\ pc[c] = "returned") =>
      /\ count[c].op_lowest = 5000
      /\ \A x \in 0 .. 49 : data[c][x] > 0

C8_Witness ==
  /\ len = 50
  /\ n = 4
  /\ pc[1] = "returned"
  /\ count[1].op_lowest = 5000

\* C9: with len 10 and n 3 the seeded ring is [1, 1, 2]; after one iteration
\* slot 0 holds 3, slots 1 and 2 are as seeded, i_buf is 1, and the one
\* increment made went to index 1 and changed no other counter.
C9_Scenario ==
  \A c \in Calls :
    (len = 10 /\ n = 3) =>
      /\ (pc[c] = "loop" /\ i[c] = 0) =>
           /\ buf[c] = [s \in 0 .. 2 |-> IF s = 2 THEN 2 ELSE 1]
           /\ i_buf[c] = 0
      /\ (pc[c] = "loop" /\ i[c] = 1) =>
           /\ buf[c] = [s \in 0 .. 2 |-> IF s = 0 THEN 3 ELSE s]
           /\ i_buf[c] = 1
           /\ count[c].op_lowest = 1
           /\ \E l \in LowsOf(c) : l.iter = 0 /\ l.index = 1 /\ l.index = seeded[c][0]
           /\ data[c] = [x \in 0 .. 9 |-> IF x = 1 THEN 1 ELSE 0]

C9_Witness ==
  /\ len = 10
  /\ n = 3
  /\ pc[1] = "loop"
  /\ i[1] = 1

\* C10: in an iteration op_lowest is called on the slot at the cursor before
\* the slot is overwritten, op_highest on the same slot once it holds the
\* reduced new value, and the cursor advances after that; the invocations
\* alternate op_lowest, op_highest, starting with op_lowest.
C10_ProtocolOrder ==
  \A c \in Calls :
    LET ev == events[c]
        last == ev[Len(ev)]
    IN /\ \A k \in 1 .. Len(ev) - 1 :
            \/ ev[k].op = "op_lowest" /\ ev[k + 1].op = "op_highest"
                 /\ ev[k + 1].iter = ev[k].iter /\ ev[k + 1].slot = ev[k].slot
            \/ ev[k].op = "op_highest" /\ ev[k + 1].op = "op_lowest"
                 /\ ev[k + 1].iter = ev[k].iter + 1
                 /\ ev[k + 1].slot = inc_ring(ev[k].slot, n)
       /\ (Len(ev) > 0 /\ Len(ev) < Window) => ev[1].op = "op_lowest" /\ ev[1].iter = 0
       /\ count[c].op_lowest + count[c].op_highest > 0 <=> Len(ev) > 0
       /\ pc[c] \in {"compute", "crashed"} =>
            /\ count[c].op_lowest = i[c] + 1 /\ count[c].op_highest = i[c]
            /\ last = Event("op_lowest", buf[c][i_buf[c]], i_buf[c], i[c])
       /\ pc[c] = "reduce" =>
            /\ count[c].op_lowest = i[c] + 1 /\ count[c].op_highest = i[c]
            /\ last.op = "op_lowest" /\ last.slot = i_buf[c] /\ last.iter = i[c]
       /\ pc[c] = "advance" =>
            /\ count[c].op_lowest = i[c] + 1 /\ count[c].op_highest = i[c] + 1
            /\ last = Event("op_highest", buf[c][i_buf[c]], i_buf[c], i[c])
            /\ buf[c][i_buf[c]] < len
       /\ pc[c] \in {"loop", "returned"} =>
            /\ count[c].op_lowest = i[c] /\ count[c].op_highest = i[c]
            /\ i[c] > 0 =>
                 /\ last.op = "op_highest" /\ last.iter = i[c] - 1
                 /\ i_buf[c] = inc_ring(last.slot, n)
                 /\ buf[c][last.slot] = last.index

C10_Witness ==
  /\ pc[1] = "advance"
  /\ i[1] >= 2
  /\ n >= 3
  /\ Len(events[1]) >= 6

\* C11: a call that has been made goes on until it returns (seeding, every
\* reduction loop and the traversal loop finish), and when it returns
\* op_lowest and op_highest have been invoked iters times each.
C11_Termination ==
  \A c \in Calls :
    /\ pc[c] = "returned" =>
         count[c].op_lowest = iters /\ count[c].op_highest = iters
    /\ pc[c] \notin {"start", "returned"} => ENABLED Step(c)

\* C12: the ring of a call is allocated when the call starts and released
\* when it returns: a call under way holds its ring, a call that has returned
\* (in particular each of the two benchmark runs) has no live ring.
C12_RingReleased ==
  \A c \in Calls :
    /\ pc[c] = "start" => mem[c].ring = "none"
    /\ pc[c] \notin {"start", "returned"} => mem[c].ring = "live"
    /\ pc[c] = "returned" => mem[c].ring = "freed"

\* C13: when the allocation of a working buffer or of a ring has failed, the
\* program stops at once: no operation is invoked for that call and nothing
\* is read or written through the null pointer.
C13_AllocFailureFatal ==
  \A c \in Calls :
    /\ mem[c].null_access = 0
    /\ (mem[c].data = "null" \/ mem[c].ring = "null") =>
         /\ count[c].op_lowest = 0
         /\ count[c].op_highest = 0
         /\ pc[c] # "crashed"

\* C14: at the start of every traversal iteration the value at
\* ring position i_buf is the smallest value held, and the value generated in
\* the iteration is the largest value held.
C14_LowestAtCursor ==
  \A c \in Calls :
    /\ (pc[c] = "loop" /\ i[c] < iters) =>
         \A j \in DOMAIN buf[c] : buf[c][i_buf[c]] <= buf[c][j]
    /\ pc[c] = "advance" =>
         \A j \in DOMAIN buf[c] : buf[c][j] <= buf[c][i_buf[c]]

\* The t-th term of the generated index sequence of call c: one of the n
\* seeds, or the value iteration t - n generated and passed to op_highest.
Term(c, t) ==
  IF t < n
    THEN seeded[c][t]
    ELSE LET q == CHOOSE q \in 1 .. Len(events[c]) :
                    /\ events[c][q].op = "op_highest"
                    /\ events[c][q].iter = t - n
         IN events[c][q].index

\* C15: at the start of iteration k the cursor is k mod n, within 0 .. n - 1,
\* and slot (i_buf + j) mod n holds term k + j of the generated sequence for
\* every j in 0 .. n - 1; within the iteration only slot i_buf changes, and
\* when the iteration ends that slot holds the next term, k + n.
C15_RingStructure ==
  \A c \in Calls :
    /\ pc[c] \in {"loop", "compute", "reduce", "advance"} =>
         /\ i_buf[c] \in 0 .. n - 1
         /\ i_buf[c] = i[c] % n
    /\ pc[c] \in {"loop", "compute"} =>
         \A j \in 0 .. n - 1 : buf[c][(i_buf[c] + j) % n] = Term(c, i[c] + j)
    /\ pc[c] = "reduce" =>
         \A j \in 1 .. n - 1 : buf[c][(i_buf[c] + j) % n] = Term(c, i[c] + j)
    /\ pc[c] = "advance" =>
         \A j \in 1 .. n : buf[c][(i_buf[c] + j) % n] = Term(c, i[c] + j)

\* An iteration past the first lap of a ring of two or more slots is about to
\* start with the cursor inside the ring, after some term has been reduced.
C15_Witness ==
  \E c \in Calls :
    /\ pc[c] = "loop"
    /\ n >= 2
    /\ i[c] > n
    /\ i_buf[c] # 0
    /\ red[c].total > 0
    /\ buf[c][i_buf[c]] = Term(c, i[c])

\* C16: the un-reduced value computed in seeding (index + follow) and in a
\* traversal step (the sum of the two newest ring values) is below 2 * len,
\* the subtraction loop subtracts len at most once, and the reduced value is
\* the un-reduced value modulo len.
C16_ReductionBound ==
  \A c \in Calls :
    /\ pc[c] \in {"seed_reduce", "reduce", "advance"} =>
         /\ red[c].raw < 2 * len
         /\ red[c].subs <= 1
    /\ (pc[c] = "seed_reduce" /\ index[c] < len) => index[c] = red[c].raw % len
    /\ (pc[c] = "reduce" /\ buf[c][i_buf[c]] < len) =>
         buf[c][i_buf[c]] = red[c].raw % len
    /\ pc[c] = "advance" => buf[c][i_buf[c]] = red[c].raw % len

\* The sum of the counters d[0], ..., d[k - 1].
RECURSIVE SumTo(_, _)
SumTo(d, k) == IF k = 0 THEN 0 ELSE d[k - 1] + SumTo(d, k - 1)

\* C17: an iteration changes the working buffer in exactly one element, the
\* one at the pre-iteration buf[i_buf], raising it by 1 (op_highest changes
\* no element), and changes the ring in slot i_buf only; so after k iterations
\* the counters of the buffer, zero at the start, sum to k.
C17_IterationFrame ==
  [][\A c \in Calls :
       /\ (pc[c] = "loop" /\ pc'[c] = "compute") =>
            LET x == buf[c][i_buf[c]]
            IN /\ x \in DOMAIN data[c]
               /\ data'[c] = [data[c] EXCEPT ![x] = @ + 1]
       /\ pc[c] \in {"compute", "reduce", "advance"} => data'[c] = data[c]
       /\ pc[c] \in {"compute", "reduce"} =>
            \A j \in DOMAIN buf[c] : j # i_buf[c] => buf'[c][j] = buf[c][j]
       /\ pc[c] \in {"loop", "advance"} => buf'[c] = buf[c]
       /\ (pc[c] = "advance" /\ pc'[c] = "loop") =>
            SumTo(data'[c], len) = i'[c]
    ]_vars

\* C18: called with len = LEN, iters = ITERS and n = NAHEAD, the parameterised
\* fibo_lookahead_foreach of prefetch.c and the constant-based one of part_000
\* agree wherever they stand at the same point of the same iteration (or of
\* seeding, or have both returned): same invocations (operation, index) so
\* far, same ring, same cursor, same seeding accumulators, same buffer.
C18_VersionsEquivalent ==
  \A c \in Calls :
    (/\ pc[c] = pc[Twin(c)]
     /\ Rank(c) = Rank(Twin(c))
     /\ pc[c] \in {"seed", "loop", "compute", "advance", "returned"}) =>
      /\ events[c] = events[Twin(c)]
      /\ count[c] = count[Twin(c)]
      /\ buf[c] = buf[Twin(c)]
      /\ data[c] = data[Twin(c)]
      /\ i_buf[c] = i_buf[Twin(c)]
      /\ i[c] = i[Twin(c)]
      /\ index[c] = index[Twin(c)]
      /\ follow[c] = follow[Twin(c)]

\* Both versions of the prefetch call have completed more than a lap of a
\* ring of two or more slots, with terms reduced on the way, and stand before
\* the same iteration.
C18_Witness ==
  /\ pc[1] = "loop"
  /\ pc[Twin(1)] = "loop"
  /\ n >= 2
  /\ i[1] > n
  /\ i[Twin(1)] = i[1]
  /\ red[1].total > 0
  /\ red[Twin(1)].total > 0
  /\ count[Twin(1)].op_highest = i[1]
  /\ buf[1] = buf[Twin(1)]
  /\ \E x \in DOMAIN data[1] : data[1][x] > 1 /\ data[Twin(1)][x] = data[1][x]

====
